---- MODULE Spec2Model ----
(***************************************************************************)
(* Model of urban_heat_island.py: the driver main() and the nine pipeline  *)
(* functions it calls, followed pixel-wise on one sample pixel of the      *)
(* region.                                                                 *)
(*                                                                         *)
(* Units.  Temperatures of single scenes are whole kelvins.  The median    *)
(* composite and the regional mean are held in HALF kelvins, so that the   *)
(* median of an even number of scenes stays an integer.  The UHI index     *)
(* (TIR - MEAN) / MEAN is a ratio, hence unit-free; it is held in units of *)
(* 0.001 rounded towards minus infinity.  Every threshold of the           *)
(* classifier is a whole multiple of 0.001, so for an integer k            *)
(* floor(y) >= k  <=>  y >= k and floor(y) < k  <=>  y < k: the rounding   *)
(* changes the outcome of no comparison the classifier makes.              *)
(***************************************************************************)
EXTENDS Integers, Sequences, FiniteSets, TLC

VARIABLES
  pc,            \* position of the process inside main()
  terminated,    \* the process has ended
  exitCode,      \* its exit status, meaningful once terminated
  out,           \* what was printed, as a sequence of message tags
  trace,         \* the pipeline functions invoked so far, in order
  initOk,        \* outcome of ee.Initialize(): "unknown", "ok", "failed"
  failedAt,      \* pc at which an uncaught exception was raised, or "none"
  vizFailedAt,   \* pc at which visualize_interactive caught one, or "none"
  centralCoord,  \* main's configuration
  startDate,
  endDate,
  cityPointArg,  \* coordinate received by ee.Geometry.Point
  urbanDateArg,  \* dates received by filterDate in get_urban_mask
  thermalDateArg,\* dates received by filterDate in load_landsat_thermal
  mapCenterArg,  \* center received by geemap.Map
  labelMode,     \* Dynamic World label mode of the sample pixel
  dynamicUrban,  \* the urban mask at the sample pixel
  metadata,      \* the filtered Landsat scenes, unscaled
  landsatThermal,\* the scenes after apply_thermal_scaling
  medianThermal, \* median composite at the sample pixel (half kelvins)
  meanLST,       \* regional mean fetched with getInfo() (half kelvins)
  uhiIndex,      \* index at the sample pixel (units of 0.001, floored)
  uhiClasses,    \* classified raster at the sample pixel
  taskStarts,    \* number of task.start() requests accepted
  jobState       \* state of the export job on the server

ctl  == <<pc, terminated, exitCode, out, trace, initOk, failedAt, vizFailedAt>>
conf == <<centralCoord, startDate, endDate>>
args == <<cityPointArg, urbanDateArg, thermalDateArg, mapCenterArg>>
data == <<labelMode, dynamicUrban, metadata, landsatThermal, medianThermal,
          meanLST, uhiIndex, uhiClasses>>
job  == <<taskStarts, jobState>>
vars == <<ctl, conf, args, data, job>>

----------------------------------------------------------------------------
(* Bounds of the model. *)

MaxScenes == 2   \* at most this many Landsat scenes pass the filters
MaxDnStep == 2   \* raw digital numbers range over 100 .. 100 + MaxDnStep

----------------------------------------------------------------------------
(* Pixels: a value, or no data (masked). *)

NoData == [valid |-> FALSE, v |-> 0]
Px(x)  == [valid |-> TRUE, v |-> x]

Bool(b) == IF b THEN 1 ELSE 0

(* Binary image operators: the result is masked where an operand is. *)
Eq(p, c)    == IF p.valid THEN Px(Bool(p.v = c)) ELSE NoData
Gte(p, c)   == IF p.valid THEN Px(Bool(p.v >= c)) ELSE NoData
Lt(p, c)    == IF p.valid THEN Px(Bool(p.v < c)) ELSE NoData
And(p, q)   == IF p.valid /\ q.valid THEN Px(Bool(p.v # 0 /\ q.v # 0)) ELSE NoData
Multiply(p, k) == IF p.valid THEN Px(p.v * k) ELSE NoData
Add(p, k)      == IF p.valid THEN Px(p.v + k) ELSE NoData

(* Image.where: where test is unmasked and nonzero the value replaces the  *)
(* input pixel; the input's mask is kept.                                  *)
Where(input, test, value) ==
  IF input.valid /\ test.valid /\ test.v # 0 THEN Px(value) ELSE input

(* Image.updateMask: a pixel stays only where the mask image is unmasked   *)
(* and nonzero.                                                            *)
UpdateMask(img, mask) ==
  IF img.valid /\ mask.valid /\ mask.v # 0 THEN img ELSE NoData

----------------------------------------------------------------------------
(* What the remote datasets can hold at the sample pixel. *)

LabelModes == {NoData, Px(1), Px(6)}

SceneProps == { [id |-> "LC08_A", mult |-> 2, add |-> 100],
                [id |-> "LC08_B", mult |-> 3, add |-> 0] }

RawPixels == {NoData} \cup { Px(100 + d) : d \in 0..MaxDnStep }

Scenes == [px : RawPixels, props : SceneProps]

Collections == UNION { [1..n -> Scenes] : n \in 1..MaxScenes }

MeanChoices == {600, 606}

----------------------------------------------------------------------------
(* load_landsat_thermal: the per-scene scaling mapped over the collection. *)

(* A swapped order of the two arithmetic steps. *)
apply_thermal_scaling_AddFirst(image) ==
  LET scaleFactor  == image.props.mult
      offsetFactor == image.props.add
      brightnessTemp == Multiply(Add(image.px, offsetFactor), scaleFactor)
  IN  [px |-> brightnessTemp, props |-> image.props]

apply_thermal_scaling(image) ==
  LET scaleFactor  == image.props.mult
      offsetFactor == image.props.add
      brightnessTemp == Add(Multiply(image.px, scaleFactor), offsetFactor)
  IN  [px |-> brightnessTemp, props |-> image.props]

MapScaling(coll) == [i \in DOMAIN coll |-> apply_thermal_scaling(coll[i])]

----------------------------------------------------------------------------
(* compute_lst: the median composite of the scenes at the sample pixel.    *)

ValidIdx(coll) == { i \in DOMAIN coll : coll[i].px.valid }

(* The k-th smallest of the unmasked values, counted with repetitions. *)
Kth(coll, k) ==
  CHOOSE x \in { coll[i].px.v : i \in ValidIdx(coll) } :
    /\ Cardinality({ i \in ValidIdx(coll) : coll[i].px.v < x }) < k
    /\ Cardinality({ i \in ValidIdx(coll) : coll[i].px.v <= x }) >= k

(* Masked inputs are ignored; the median of an even count is the mean of   *)
(* the two middle values.  The result is in half kelvins.                  *)
Median(coll) ==
  LET n == Cardinality(ValidIdx(coll)) IN
  IF n = 0 THEN NoData
  ELSE IF n % 2 = 1 THEN Px(2 * Kth(coll, (n + 1) \div 2))
  ELSE Px(Kth(coll, n \div 2) + Kth(coll, n \div 2 + 1))

----------------------------------------------------------------------------
(* calculate_uhi_index: '(TIR - MEAN) / MEAN' in units of 0.001, floored.  *)

Expression(tir, mean) ==
  IF tir.valid THEN Px(((tir.v - mean) * 1000) \div mean) ELSE NoData

----------------------------------------------------------------------------
(* classify_uhi_intensity.  Index values are in units of 0.001, so the     *)
(* thresholds 0.005, 0.010, 0.015, 0.020 read 5, 10, 15, 20.               *)

(* Band k's lower bound made exclusive. *)
BandTest_Exclusive(k, idx) ==
  CASE k = 1 -> And(Gte(idx, 1), Lt(idx, 5))
    [] k = 2 -> And(Gte(idx, 6), Lt(idx, 10))
    [] k = 3 -> And(Gte(idx, 11), Lt(idx, 15))
    [] k = 4 -> And(Gte(idx, 16), Lt(idx, 20))
    [] k = 5 -> Gte(idx, 21)

(* Band 1 without its lower bound. *)
BandTest_NoLowerBound(k, idx) ==
  CASE k = 1 -> Lt(idx, 5)
    [] k = 2 -> And(Gte(idx, 5), Lt(idx, 10))
    [] k = 3 -> And(Gte(idx, 10), Lt(idx, 15))
    [] k = 4 -> And(Gte(idx, 15), Lt(idx, 20))
    [] k = 5 -> Gte(idx, 20)

(* The test image of the k-th where-clause. *)
BandTest(k, idx) ==
  CASE k = 1 -> And(Gte(idx, 0), Lt(idx, 5))
    [] k = 2 -> And(Gte(idx, 5), Lt(idx, 10))
    [] k = 3 -> And(Gte(idx, 10), Lt(idx, 15))
    [] k = 4 -> And(Gte(idx, 15), Lt(idx, 20))
    [] k = 5 -> Gte(idx, 20)

(* The where-clauses named by order, applied left to right; clause k       *)
(* writes the class value k.                                               *)
RECURSIVE WhereChain(_, _, _)
WhereChain(img, order, idx) ==
  IF order = <<>> THEN img
  ELSE WhereChain(Where(img, BandTest(Head(order), idx), Head(order)),
                  Tail(order), idx)

(* ee.Image.constant(0) with the five clauses in the order of the source. *)
Bucketed(idx) == WhereChain(Px(0), <<1, 2, 3, 4, 5>>, idx)

(* The classifier without its final updateMask. *)
Classify_NoMask(idx, urban) == Bucketed(idx)

Classify(idx, urban) == UpdateMask(Bucketed(idx), urban)

----------------------------------------------------------------------------
(* The process.  Init is the state on entry to main(). *)

Init ==
  /\ pc = "init" /\ terminated = FALSE /\ exitCode = 0
  /\ out = <<>> /\ trace = <<>>
  /\ initOk = "unknown" /\ failedAt = "none" /\ vizFailedAt = "none"
  /\ centralCoord = <<>> /\ startDate = "" /\ endDate = ""
  /\ cityPointArg = <<>> /\ urbanDateArg = <<>> /\ thermalDateArg = <<>>
  /\ mapCenterArg = <<>>
  /\ labelMode = NoData /\ dynamicUrban = NoData
  /\ metadata = <<>> /\ landsatThermal = <<>>
  /\ medianThermal = NoData /\ meanLST = 0
  /\ uhiIndex = NoData /\ uhiClasses = NoData
  /\ taskStarts = 0 /\ jobState = "UNSUBMITTED"

(* ee.Initialize() returned. *)
InitializeOk ==
  /\ pc = "init"
  /\ initOk' = "ok"
  /\ out' = Append(out, "init_ok")
  /\ trace' = Append(trace, "initialize_earth_engine")
  /\ pc' = "config"
  /\ UNCHANGED <<terminated, exitCode, failedAt, vizFailedAt, conf, args, data, job>>

(* The except branch without its exit(1): main goes on. *)
InitializeFailed_NoExit ==
  /\ pc = "init"
  /\ initOk' = "failed"
  /\ out' = out \o <<"init_failed", "init_error", "auth_guidance">>
  /\ trace' = Append(trace, "initialize_earth_engine")
  /\ pc' = "config"
  /\ UNCHANGED <<terminated, exitCode, failedAt, vizFailedAt, conf, args, data, job>>

(* ee.Initialize() raised: the except branch prints and calls exit(1). *)
InitializeFailed ==
  /\ pc = "init"
  /\ initOk' = "failed"
  /\ out' = out \o <<"init_failed", "init_error", "auth_guidance">>
  /\ trace' = Append(trace, "initialize_earth_engine")
  /\ pc' = "exited" /\ terminated' = TRUE /\ exitCode' = 1
  /\ UNCHANGED <<failedAt, vizFailedAt, conf, args, data, job>>

initialize_earth_engine == InitializeOk \/ InitializeFailed

(* main's configuration block.  Coordinates are in units of 0.0001 degree, *)
(* longitude first.                                                        *)
Configure ==
  /\ pc = "config"
  /\ centralCoord' = <<802707, 130827>>
  /\ startDate' = "2023-01-01"
  /\ endDate' = "2024-12-31"
  /\ out' = Append(out, "configuration")
  /\ pc' = "load_admin"
  /\ UNCHANGED <<terminated, exitCode, trace, initOk, failedAt, vizFailedAt,
                 args, data, job>>

load_admin_boundaries ==
  /\ pc = "load_admin"
  /\ trace' = Append(trace, "load_admin_boundaries")
  /\ pc' = "get_roi"
  /\ UNCHANGED <<terminated, exitCode, out, initOk, failedAt, vizFailedAt,
                 conf, args, data, job>>

get_roi(coord) ==
  /\ pc = "get_roi"
  /\ cityPointArg' = coord
  /\ trace' = Append(trace, "get_roi")
  /\ pc' = "urban_mask"
  /\ UNCHANGED <<terminated, exitCode, out, initOk, failedAt, vizFailedAt, conf,
                 urbanDateArg, thermalDateArg, mapCenterArg, data, job>>

(* The label mode of the sample pixel is whatever the dataset holds. *)
get_urban_mask(sd, ed) ==
  /\ pc = "urban_mask"
  /\ urbanDateArg' = <<sd, ed>>
  /\ \E lm \in LabelModes :
       /\ labelMode' = lm
       /\ dynamicUrban' = Eq(lm, 6)
  /\ trace' = Append(trace, "get_urban_mask")
  /\ pc' = "thermal"
  /\ UNCHANGED <<terminated, exitCode, out, initOk, failedAt, vizFailedAt, conf,
                 cityPointArg, thermalDateArg, mapCenterArg, metadata,
                 landsatThermal, medianThermal, meanLST, uhiIndex, uhiClasses, job>>

(* The scenes that pass the filters are whatever the archive holds. *)
load_landsat_thermal(sd, ed) ==
  /\ pc = "thermal"
  /\ thermalDateArg' = <<sd, ed>>
  /\ \E coll \in Collections :
       /\ metadata' = coll
       /\ landsatThermal' = MapScaling(coll)
  /\ trace' = Append(trace, "load_landsat_thermal")
  /\ pc' = "lst"
  /\ UNCHANGED <<terminated, exitCode, out, initOk, failedAt, vizFailedAt, conf,
                 cityPointArg, urbanDateArg, mapCenterArg, labelMode,
                 dynamicUrban, medianThermal, meanLST, uhiIndex, uhiClasses, job>>

(* The regional mean depends on pixels other than the sample pixel: it is  *)
(* whatever getInfo() returns.                                             *)
compute_lst(thermal) ==
  /\ pc = "lst"
  /\ medianThermal' = Median(thermal)
  /\ \E m \in MeanChoices : meanLST' = m
  /\ trace' = Append(trace, "compute_lst")
  /\ pc' = "index"
  /\ UNCHANGED <<terminated, exitCode, out, initOk, failedAt, vizFailedAt, conf,
                 args, labelMode, dynamicUrban, metadata, landsatThermal,
                 uhiIndex, uhiClasses, job>>

(* main going from the index straight to the export. *)
calculate_uhi_index_SkipClassify(median, mean) ==
  /\ pc = "index"
  /\ uhiIndex' = Expression(median, mean)
  /\ trace' = Append(trace, "calculate_uhi_index")
  /\ pc' = "export"
  /\ UNCHANGED <<terminated, exitCode, out, initOk, failedAt, vizFailedAt, conf,
                 args, labelMode, dynamicUrban, metadata, landsatThermal,
                 medianThermal, meanLST, uhiClasses, job>>

calculate_uhi_index(median, mean) ==
  /\ pc = "index"
  /\ uhiIndex' = Expression(median, mean)
  /\ trace' = Append(trace, "calculate_uhi_index")
  /\ pc' = "classify"
  /\ UNCHANGED <<terminated, exitCode, out, initOk, failedAt, vizFailedAt, conf,
                 args, labelMode, dynamicUrban, metadata, landsatThermal,
                 medianThermal, meanLST, uhiClasses, job>>

classify_uhi_intensity(idx, urban) ==
  /\ pc = "classify"
  /\ uhiClasses' = Classify(idx, urban)
  /\ trace' = Append(trace, "classify_uhi_intensity")
  /\ pc' = "export"
  /\ UNCHANGED <<terminated, exitCode, out, initOk, failedAt, vizFailedAt, conf,
                 args, labelMode, dynamicUrban, metadata, landsatThermal,
                 medianThermal, meanLST, uhiIndex, job>>

----------------------------------------------------------------------------
(* export_to_drive, in its three steps: build the task, start it, report   *)
(* its id and return the handle.                                           *)

ExportCreate ==
  /\ pc = "export"
  /\ out' = Append(out, "exporting")
  /\ trace' = Append(trace, "export_to_drive")
  /\ pc' = "export_start"
  /\ UNCHANGED <<terminated, exitCode, initOk, failedAt, vizFailedAt, conf,
                 args, data, job>>

(* task.start(): the server registers the job. *)
TaskStart ==
  /\ pc = "export_start"
  /\ taskStarts' = taskStarts + 1
  /\ jobState' = "READY"
  /\ pc' = "export_report"
  /\ UNCHANGED <<terminated, exitCode, out, trace, initOk, failedAt,
                 vizFailedAt, conf, args, data>>

(* export_to_drive returning only once the job has completed. *)
ExportReturn_WhenDone ==
  /\ pc = "export_report"
  /\ jobState = "COMPLETED"
  /\ out' = Append(out, "export_task_id")
  /\ pc' = "visualize"
  /\ UNCHANGED <<terminated, exitCode, trace, initOk, failedAt, vizFailedAt,
                 conf, args, data, job>>

ExportReturn ==
  /\ pc = "export_report"
  /\ out' = Append(out, "export_task_id")
  /\ pc' = "visualize"
  /\ UNCHANGED <<terminated, exitCode, trace, initOk, failedAt, vizFailedAt,
                 conf, args, data, job>>

export_to_drive == ExportCreate \/ TaskStart \/ ExportReturn

(* The export job on the server, which runs on its own. *)
JobRun ==
  /\ jobState = "READY"
  /\ jobState' = "RUNNING"
  /\ UNCHANGED <<ctl, conf, args, data, taskStarts>>

JobComplete ==
  /\ jobState = "RUNNING"
  /\ jobState' = "COMPLETED"
  /\ UNCHANGED <<ctl, conf, args, data, taskStarts>>

JobFail ==
  /\ jobState = "RUNNING"
  /\ jobState' = "FAILED"
  /\ UNCHANGED <<ctl, conf, args, data, taskStarts>>

RemoteJob == JobRun \/ JobComplete \/ JobFail

----------------------------------------------------------------------------
(* visualize_interactive: the body of its try block, statement by          *)
(* statement, and its except branch.                                       *)

VizPcs == {"visualize", "viz_layer1", "viz_layer2", "viz_control", "viz_save"}

(* geemap.Map given the pair as configured, longitude first. *)
VizMap_Unswapped(coord) ==
  /\ pc = "visualize"
  /\ mapCenterArg' = coord
  /\ out' = Append(out, "visualizing")
  /\ trace' = Append(trace, "visualize_interactive")
  /\ pc' = "viz_layer1"
  /\ UNCHANGED <<terminated, exitCode, initOk, failedAt, vizFailedAt, conf,
                 cityPointArg, urbanDateArg, thermalDateArg, data, job>>

(* geemap.Map(center=(centralCoord[1], centralCoord[0]), zoom=10);         *)
(* Python indexes from 0, TLA+ from 1.                                     *)
VizMap(coord) ==
  /\ pc = "visualize"
  /\ mapCenterArg' = <<coord[2], coord[1]>>
  /\ out' = Append(out, "visualizing")
  /\ trace' = Append(trace, "visualize_interactive")
  /\ pc' = "viz_layer1"
  /\ UNCHANGED <<terminated, exitCode, initOk, failedAt, vizFailedAt, conf,
                 cityPointArg, urbanDateArg, thermalDateArg, data, job>>

VizLayer1 ==
  /\ pc = "viz_layer1"
  /\ pc' = "viz_layer2"
  /\ UNCHANGED <<terminated, exitCode, out, trace, initOk, failedAt,
                 vizFailedAt, conf, args, data, job>>

VizLayer2 ==
  /\ pc = "viz_layer2"
  /\ pc' = "viz_control"
  /\ UNCHANGED <<terminated, exitCode, out, trace, initOk, failedAt,
                 vizFailedAt, conf, args, data, job>>

VizControl ==
  /\ pc = "viz_control"
  /\ pc' = "viz_save"
  /\ UNCHANGED <<terminated, exitCode, out, trace, initOk, failedAt,
                 vizFailedAt, conf, args, data, job>>

VizSave ==
  /\ pc = "viz_save"
  /\ out' = Append(out, "map_saved")
  /\ pc' = "summary"
  /\ UNCHANGED <<terminated, exitCode, trace, initOk, failedAt, vizFailedAt,
                 conf, args, data, job>>

(* The statement at pc raised and nothing caught it. *)
VizFail_Uncaught ==
  /\ pc \in VizPcs
  /\ vizFailedAt' = pc
  /\ out' = (IF pc = "visualize" THEN Append(out, "visualizing") ELSE out)
              \o <<"traceback">>
  /\ trace' = IF pc = "visualize"
              THEN Append(trace, "visualize_interactive") ELSE trace
  /\ pc' = "crashed" /\ terminated' = TRUE /\ exitCode' = 1
  /\ UNCHANGED <<initOk, failedAt, conf, args, data, job>>

(* The statement at pc raised: except Exception prints the warning and the *)
(* function returns.                                                       *)
VizFail ==
  /\ pc \in VizPcs
  /\ vizFailedAt' = pc
  /\ out' = (IF pc = "visualize" THEN Append(out, "visualizing") ELSE out)
              \o <<"viz_warning">>
  /\ trace' = IF pc = "visualize"
              THEN Append(trace, "visualize_interactive") ELSE trace
  /\ pc' = "summary"
  /\ UNCHANGED <<terminated, exitCode, initOk, failedAt, conf, args, data, job>>

visualize_interactive(coord) ==
  VizMap(coord) \/ VizLayer1 \/ VizLayer2 \/ VizControl \/ VizSave \/ VizFail

(* The closing prints of main; main returns and the process ends. *)
Summary ==
  /\ pc = "summary"
  /\ out' = Append(out, "analysis_complete")
  /\ pc' = "done" /\ terminated' = TRUE /\ exitCode' = 0
  /\ UNCHANGED <<trace, initOk, failedAt, vizFailedAt, conf, args, data, job>>

----------------------------------------------------------------------------
(* Steps 1 to 8 run outside any try block: an exception raised there       *)
(* leaves main, and the interpreter ends the process with status 1.        *)

FailablePcs == {"load_admin", "get_roi", "urban_mask", "thermal", "lst",
                "index", "classify", "export", "export_start"}

(* The function main enters at pc p, if p is the start of a call. *)
Callee(p) ==
  CASE p = "load_admin"   -> <<"load_admin_boundaries">>
    [] p = "get_roi"      -> <<"get_roi">>
    [] p = "urban_mask"   -> <<"get_urban_mask">>
    [] p = "thermal"      -> <<"load_landsat_thermal">>
    [] p = "lst"          -> <<"compute_lst">>
    [] p = "index"        -> <<"calculate_uhi_index">>
    [] p = "classify"     -> <<"classify_uhi_intensity">>
    [] p = "export"       -> <<"export_to_drive">>
    [] OTHER              -> <<>>

(* A handler around the steps that swallows the exception and goes on. *)
UncaughtError_Swallowed ==
  /\ pc \in FailablePcs
  /\ failedAt' = pc
  /\ trace' = trace \o Callee(pc)
  /\ out' = Append(out, "viz_warning")
  /\ pc' = IF pc \in {"export", "export_start"} THEN "visualize" ELSE "export"
  /\ UNCHANGED <<terminated, exitCode, initOk, vizFailedAt, conf, args, data, job>>

UncaughtError ==
  /\ pc \in FailablePcs
  /\ failedAt' = pc
  /\ trace' = trace \o Callee(pc)
  /\ out' = Append(out, "traceback")
  /\ pc' = "crashed" /\ terminated' = TRUE /\ exitCode' = 1
  /\ UNCHANGED <<initOk, vizFailedAt, conf, args, data, job>>

(* task.start() raised although the server had registered the job. *)
StartLost ==
  /\ pc = "export_start"
  /\ failedAt' = pc
  /\ taskStarts' = taskStarts + 1
  /\ jobState' = "READY"
  /\ out' = Append(out, "traceback")
  /\ pc' = "crashed" /\ terminated' = TRUE /\ exitCode' = 1
  /\ UNCHANGED <<trace, initOk, vizFailedAt, conf, args, data>>

----------------------------------------------------------------------------
(* main: the calls in the order of the source, each with the arguments     *)
(* main passes.                                                            *)

MainNext ==
  \/ initialize_earth_engine
  \/ Configure
  \/ load_admin_boundaries
  \/ get_roi(centralCoord)
  \/ get_urban_mask(startDate, endDate)
  \/ load_landsat_thermal(startDate, endDate)
  \/ compute_lst(landsatThermal)
  \/ calculate_uhi_index(medianThermal, meanLST)
  \/ classify_uhi_intensity(uhiIndex, dynamicUrban)
  \/ export_to_drive
  \/ visualize_interactive(centralCoord)
  \/ Summary
  \/ UncaughtError
  \/ StartLost

Next == MainNext \/ RemoteJob

Spec == Init /\ [][Next]_vars

----------------------------------------------------------------------------
(* Vocabulary of the properties. *)

Range(f) == { f[i] : i \in DOMAIN f }

IsPrefix(s, t) == Len(s) <= Len(t) /\ \A i \in 1..Len(s) : s[i] = t[i]

Holds(test) == test.valid /\ test.v # 0

(* classify_uhi_intensity has returned. *)
Classified == pc = "export" \/ "export_to_drive" \in Range(trace)

(* The band of a non-negative index value x, by its bounds. *)
BandOf(x) ==
  IF x < 5 THEN 1 ELSE IF x < 10 THEN 2 ELSE IF x < 15 THEN 3
  ELSE IF x < 20 THEN 4 ELSE 5

(* The nine components of the pipeline, in their order. *)
ComponentOrder ==
  << "initialize_earth_engine", "get_roi", "get_urban_mask",
     "load_landsat_thermal", "compute_lst", "calculate_uhi_index",
     "classify_uhi_intensity", "export_to_drive", "visualize_interactive" >>

IsComponent(fn) == fn \in Range(ComponentOrder)

(* Every call main makes, in its order. *)
CallOrder ==
  << "initialize_earth_engine", "load_admin_boundaries", "get_roi",
     "get_urban_mask", "load_landsat_thermal", "compute_lst",
     "calculate_uhi_index", "classify_uhi_intensity", "export_to_drive",
     "visualize_interactive" >>

----------------------------------------------------------------------------
(* C1: for every index value x >= 0 exactly one of the five band tests     *)
(* holds, it is the band whose bounds contain x, the five where-clauses    *)
(* applied in any order write that band's class, and an urban pixel        *)
(* carries it in the classified raster.  Stated of the state in which      *)
(* classify_uhi_intensity has just returned; nothing writes uhiIndex or    *)
(* uhiClasses afterwards.                                                  *)
C1_BandsPartition ==
  (pc = "export" /\ uhiIndex.valid /\ uhiIndex.v >= 0) =>
    LET band == BandOf(uhiIndex.v)
        hits == { k \in 1..5 : Holds(BandTest(k, uhiIndex)) }
    IN  /\ hits = {band}
        /\ Cardinality(hits) = 1
        /\ \A order \in Permutations(1..5) :
             WhereChain(Px(0), order, uhiIndex) = Px(band)
        /\ (labelMode = Px(6) => uhiClasses = Px(band))

(* An urban pixel whose index sits exactly on the 0.005 bound got class 2. *)
C1_Witness ==
  /\ pc = "export"
  /\ uhiIndex = Px(5)
  /\ labelMode = Px(6)
  /\ uhiClasses = Px(2)

(* C2: for every index value x < 0 no band test holds and the classified   *)
(* raster carries none of the class values 1..5 at that pixel.             *)
C2_NegativeUnclassified ==
  (Classified /\ uhiIndex.valid /\ uhiIndex.v < 0) =>
    /\ \A k \in 1..5 : ~Holds(BandTest(k, uhiIndex))
    /\ ~(uhiClasses.valid /\ uhiClasses.v \in 1..5)

(* An urban pixel cooler than the regional mean came out with the          *)
(* constant 0.                                                             *)
C2_Witness ==
  /\ pc = "done"
  /\ uhiIndex.valid /\ uhiIndex.v < 0
  /\ labelMode = Px(6)
  /\ uhiClasses = Px(0)

(* C9: the classified raster carries a value at a pixel exactly when the   *)
(* land-cover mode there is class 6, and then it is the value the band     *)
(* bucketing gave.                                                         *)
C9_MaskedToUrban ==
  Classified =>
    /\ uhiClasses.valid <=> labelMode = Px(6)
    /\ labelMode = Px(6) => uhiClasses = Bucketed(uhiIndex)

(* A non-urban pixel hot enough for class 5 carries no value. *)
C9_Witness ==
  /\ pc = "done"
  /\ labelMode = Px(1)
  /\ uhiIndex.valid /\ uhiIndex.v >= 20
  /\ uhiClasses = NoData

(* C10: every scaled scene is value * scale + offset with the scale and    *)
(* offset of that same scene, and keeps that scene's properties.           *)
C10_ThermalScaling ==
  /\ Len(landsatThermal) = Len(metadata)
  /\ \A i \in DOMAIN metadata :
       LET raw == metadata[i]
           scaled == landsatThermal[i]
       IN  /\ scaled.props = raw.props
           /\ scaled.px.valid <=> raw.px.valid
           /\ raw.px.valid =>
                scaled.px.v = raw.px.v * raw.props.mult + raw.props.add

(* Two scenes with different scale and offset were scaled. *)
C10_Witness ==
  /\ Len(landsatThermal) = 2
  /\ metadata[1].px = Px(101) /\ metadata[2].px = Px(102)
  /\ metadata[1].props.mult # metadata[2].props.mult
  /\ metadata[1].props.add # metadata[2].props.add
  /\ landsatThermal[1].px.v # landsatThermal[2].px.v

----------------------------------------------------------------------------
(* C3: when ee.Initialize() fails the process ends with a non-zero status  *)
(* right after the guidance is printed, and no later step has run or can   *)
(* run: nothing but the bootstrap was invoked, the configuration was never *)
(* set, no call received an argument, no export task exists.               *)
C3_InitFailureIsFatal ==
  initOk = "failed" =>
    /\ pc = "exited" /\ terminated /\ exitCode # 0
    /\ out = <<"init_failed", "init_error", "auth_guidance">>
    /\ trace = <<"initialize_earth_engine">>
    /\ ~ENABLED MainNext
    /\ centralCoord = <<>>
    /\ cityPointArg = <<>> /\ urbanDateArg = <<>>
    /\ thermalDateArg = <<>> /\ mapCenterArg = <<>>
    /\ metadata = <<>> /\ uhiClasses = NoData
    /\ taskStarts = 0 /\ jobState = "UNSUBMITTED"

(* ee.Initialize() failed and the process is gone. *)
C3_Witness == initOk = "failed" /\ pc = "exited" /\ exitCode = 1

(* C4: a failure at any statement of visualize_interactive's try block is  *)
(* caught and reported as a warning; main goes on to the summary and ends  *)
(* normally, and the export task submitted before is as it was.            *)
C4_VisualizationFailureCaught ==
  vizFailedAt # "none" =>
    /\ vizFailedAt \in VizPcs
    /\ failedAt = "none"
    /\ pc \in {"summary", "done"}
    /\ out[Len(out) - (IF pc = "done" THEN 1 ELSE 0)] = "viz_warning"
    /\ pc = "summary" => ~terminated /\ ENABLED Summary
    /\ pc = "done" =>
         /\ terminated /\ exitCode = 0
         /\ out[Len(out)] = "analysis_complete"
    /\ taskStarts = 1 /\ jobState # "UNSUBMITTED"
    /\ uhiClasses = Classify(uhiIndex, dynamicUrban)

(* Saving the HTML file failed, and main still completed. *)
C4_Witness ==
  /\ vizFailedAt = "viz_save"
  /\ pc = "done"
  /\ exitCode = 0

(* C5: a failure in any of steps 1 to 8 ends the process with a non-zero   *)
(* status: the calls made are main's calls up to the failing one, each     *)
(* once, no step can run any more, the summary is not printed, the         *)
(* visualizer never ran, and a failure at or before classification leaves  *)
(* no export task.                                                         *)
C5_OtherFailuresFatal ==
  failedAt # "none" =>
    /\ failedAt \in FailablePcs
    /\ pc = "crashed" /\ terminated /\ exitCode # 0
    /\ ~ENABLED MainNext
    /\ "analysis_complete" \notin Range(out)
    /\ "viz_warning" \notin Range(out)
    /\ IsPrefix(trace, CallOrder)
    /\ trace[Len(trace)] =
         (IF failedAt = "export_start" THEN "export_to_drive"
          ELSE Callee(failedAt)[1])
    /\ mapCenterArg = <<>> /\ vizFailedAt = "none"
    /\ failedAt \notin {"export", "export_start"} =>
         taskStarts = 0 /\ jobState = "UNSUBMITTED"
    /\ failedAt = "export" => taskStarts = 0 /\ jobState = "UNSUBMITTED"
    /\ taskStarts <= 1

(* The classifier raised: the process is gone and nothing was exported. *)
C5_Witness ==
  /\ failedAt = "classify"
  /\ pc = "crashed"
  /\ taskStarts = 0

(* C6: the components invoked so far are always an initial part of the     *)
(* fixed order, so none starts out of order, is skipped or is repeated; a  *)
(* multi-statement component is the last one invoked while it runs; and a  *)
(* run in which no step failed has invoked all nine, each once.            *)
C6_StrictSequence ==
  /\ IsPrefix(SelectSeq(trace, IsComponent), ComponentOrder)
  /\ pc \in {"export_start", "export_report"} =>
       trace[Len(trace)] = "export_to_drive"
  /\ pc \in VizPcs \ {"visualize"} =>
       trace[Len(trace)] = "visualize_interactive"
  /\ (pc = "done" /\ vizFailedAt = "none") =>
       SelectSeq(trace, IsComponent) = ComponentOrder

(* A run without any failure has completed. *)
C6_Witness ==
  /\ pc = "done"
  /\ vizFailedAt = "none"
  /\ failedAt = "none"
  /\ Len(trace) = 10

(* C7: task.start() is requested at most once, and exactly once in a run   *)
(* that gets past the export; from the moment the task is started until    *)
(* the summary, main always has a step it can take, whatever state the     *)
(* job is in.                                                              *)
C7_ExportFireAndForget ==
  /\ taskStarts <= 1
  /\ pc \in (({"export_report", "summary", "done"} \cup VizPcs)) =>
       /\ taskStarts = 1
       /\ jobState \in {"READY", "RUNNING", "COMPLETED", "FAILED"}
  /\ pc \in (({"export_report", "summary"} \cup VizPcs)) => ENABLED MainNext
  /\ jobState # "UNSUBMITTED" => taskStarts = 1

(* main has completed while the export job has not even begun to run. *)
C7_Witness ==
  /\ pc = "done"
  /\ jobState = "READY"
  /\ taskStarts = 1

(* C8, as stated: the configuration keeps the values main set, and every   *)
(* call that takes the coordinate or the dates receives them as            *)
(* configured, the coordinate pair in the configured component order.      *)
C8_PassedUnmodified ==
  /\ pc \notin {"init", "config", "exited"} =>
       /\ centralCoord = <<802707, 130827>>
       /\ startDate = "2023-01-01" /\ endDate = "2024-12-31"
  /\ cityPointArg # <<>> => cityPointArg = centralCoord
  /\ urbanDateArg # <<>> => urbanDateArg = <<startDate, endDate>>
  /\ thermalDateArg # <<>> => thermalDateArg = <<startDate, endDate>>
  /\ mapCenterArg # <<>> => mapCenterArg = centralCoord

(* C8, amended: as above, except that geemap.Map receives the two          *)
(* coordinate values in reversed order, latitude first.                    *)
C8_PassedUnmodifiedMapReversed ==
  /\ pc \notin {"init", "config", "exited"} =>
       /\ centralCoord = <<802707, 130827>>
       /\ startDate = "2023-01-01" /\ endDate = "2024-12-31"
  /\ cityPointArg # <<>> => cityPointArg = centralCoord
  /\ urbanDateArg # <<>> => urbanDateArg = <<startDate, endDate>>
  /\ thermalDateArg # <<>> => thermalDateArg = <<startDate, endDate>>
  /\ mapCenterArg # <<>> =>
       /\ mapCenterArg = <<centralCoord[2], centralCoord[1]>>
       /\ mapCenterArg # centralCoord

(* Every consumer has received its arguments. *)
C8_Witness ==
  /\ cityPointArg = <<802707, 130827>>
  /\ mapCenterArg = <<130827, 802707>>
  /\ urbanDateArg = <<"2023-01-01", "2024-12-31">>
  /\ thermalDateArg = <<"2023-01-01", "2024-12-31">>

====
